---- MODULE Spec2Model ----
(***************************************************************************)
(* Model of soundcraft/installtool.py: the post-install and pre-uninstall  *)
(* commands.  A path is a sequence of path components; the filesystem is   *)
(* the set of paths of the files present; the session bus, the xdg tools   *)
(* and filesystem faults are environment choices.                          *)
(***************************************************************************)
EXTENDS Integers, Sequences, FiniteSets, TLC

VARIABLES
    home,        \* the user's home directory, the expansion of "~"
    manifest,    \* bundled data files: [dbus |-> files, xdg |-> files]
    fs,          \* paths of the files present on disk
    prev,        \* datadir of the run before, when it was a completed post-install
    mode,        \* "idle", "find_datadir", "post_install", "pre_uninstall", "usage"
    argv0,       \* Path(sys.argv[0]).resolve()
    pc,          \* position in the program
    datadir,     \* local variable datadir
    timeout,     \* local variable timeout of post_install_dbus
    i,           \* index of the file a "for f in files" loop is at
    size_i,      \* index of the size the "for size in (...)" loop is at
    error,       \* the exception that reached the top level, or "none"
    failedAt,    \* the position the exception was raised at, or "none"
    starts,      \* StartServiceByName calls made by this post_install_dbus
    sleeps,      \* time.sleep(1) calls made by this post_install_dbus
    answers,     \* the kinds of answers StartServiceByName got
    log,         \* the other external operations of this run, in order
    toolFailed,  \* an xdg tool exited with a failure status in this run
    reported     \* the XDG step printed its "... all XDG ..." line

vars == <<home, manifest, fs, prev, mode, argv0, pc, datadir, timeout, i,
          size_i, error, failedAt, starts, sleeps, answers, log, toolFailed,
          reported>>

\* ------------------------------------------------------------------ bounds
MaxXdgFiles == 2

\* --------------------------------------------------------------- constants
BASE_EXE_INSTALLTOOL == "soundcraft_installtool"
ServiceFileName == "soundcraft.utils.notepad.service"
NoPath == << >>

\* PurePath.suffix of the file names the model uses
suffix(name) ==
    CASE name = "installtool.py" -> ".py"
      [] name = "soundcraft.service" -> ".service"
      [] name = "soundcraft-mixer.desktop" -> ".desktop"
      [] name = "soundcraft-mixer.png" -> ".png"
      [] name = "soundcraft-mixer.svg" -> ".svg"
      [] name = "soundcraft-utils.svg" -> ".svg"
      [] OTHER -> ""

Last(p) == p[Len(p)]

\* PurePath.relative_to(prefix) does not raise ValueError
relative_to(path, prefix) ==
    /\ Len(prefix) <= Len(path)
    /\ SubSeq(path, 1, Len(prefix)) = prefix

\* Path("~/.local").expanduser()
expanduser(h) == h \o <<".local">>

\* ---------------------------------------------------------------- exePath
exePath(exename) ==
    IF suffix(Last(exename)) = ".py"
    THEN [exc |-> "ValueError: module-based execution", path |-> NoPath]
    ELSE [exc |-> "none", path |-> exename]

\* ----------------------------------------------------------- find_datadir
prefixes_m(h) == << <<"usr">>, <<"usr", "local">>, expanduser(h) >>
prefixes(h) == << <<"usr", "local">>, <<"usr">>, expanduser(h) >>

sx_dirs == <<"bin", "sbin", "libexec">>

RECURSIVE find_datadir_loop(_, _, _, _)
find_datadir_loop(exe_path, h, p, d) ==
    IF p > Len(prefixes(h))
    THEN [exc |-> "ValueError: Exe path is not supported", path |-> NoPath]
    ELSE IF d > Len(sx_dirs)
    THEN find_datadir_loop(exe_path, h, p + 1, 1)
    ELSE LET prefix == prefixes(h)[p]
             sx_path == prefix \o <<sx_dirs[d], BASE_EXE_INSTALLTOOL>>
         IN  IF sx_path = exe_path
             THEN [exc |-> "none", path |-> prefix \o <<"share">>]
             ELSE IF relative_to(exe_path, prefix)
             THEN [exc |-> "none", path |-> prefix \o <<"share">>]
             ELSE find_datadir_loop(exe_path, h, p, d + 1)

find_datadir(exename, h) ==
    LET exe == exePath(exename)
    IN  IF exe.exc # "none" THEN exe
        ELSE find_datadir_loop(exe.path, h, 1, 1)

\* ------------------------------------------------------------ environment
\* The home directories a behaviour may start with.  Spec, the specification
\* of the runs, uses UserHome alone; SpecDatadir draws from all of them.
UserHome == <<"home", "user">>
Homes ==
    { UserHome, <<"root">>, << >>, <<"usr", "home", "user">>,
      <<"usr", "local", "home">>, <<"usr">> }

\* The resolved executable paths tried for a home directory h.
ExePathsOf(h) ==
    LET roots == { <<"usr", "local">>, <<"usr">>, expanduser(h),
                   <<"opt", "soundcraft">>, <<"usr", "localfoo">>, h }
        tails == { <<"bin", BASE_EXE_INSTALLTOOL>>,
                   <<"sbin", BASE_EXE_INSTALLTOOL>>,
                   <<"libexec", BASE_EXE_INSTALLTOOL>>,
                   <<"bin", "installtool.py">>,
                   <<"bin", "python3">>,
                   <<"share", "virtualenvs", "venv", "bin", BASE_EXE_INSTALLTOOL>>,
                   <<BASE_EXE_INSTALLTOOL>> }
    IN  { r \o t : r \in roots, t \in tails }

\* The executables a run of Spec is started as.
RunExePaths ==
    { <<"usr", "bin", BASE_EXE_INSTALLTOOL>>,
      expanduser(UserHome) \o <<"bin", BASE_EXE_INSTALLTOOL>>,
      <<"opt", "soundcraft", "bin", BASE_EXE_INSTALLTOOL>> }

RunDatadirs == { <<"usr", "share">>, expanduser(UserHome) \o <<"share">> }

\* findDataFiles("dbus-1") and findDataFiles("xdg"): the files of the one
\* module path, in the order of the directory walk.
AllManifests ==
    { [dbus |-> << >>, xdg |-> << >>],
      [dbus |-> <<"soundcraft.service">>,
       xdg  |-> <<"soundcraft-mixer.desktop", "soundcraft-mixer.svg">>],
      [dbus |-> <<"soundcraft.service">>,
       xdg  |-> <<"soundcraft-mixer.svg", "soundcraft-utils.svg">>],
      [dbus |-> <<"README", "soundcraft.service">>,
       xdg  |-> <<"soundcraft-mixer.png", "soundcraft-utils.svg">>],
      [dbus |-> <<"soundcraft.service">>,
       xdg  |-> <<"README", "soundcraft-mixer.svg">>],
      [dbus |-> <<"soundcraft.service">>,
       xdg  |-> <<"soundcraft-mixer.svg", "soundcraft-mixer.desktop",
                  "soundcraft-utils.svg">>] }

Manifests == { m \in AllManifests : Len(m.xdg) <= MaxXdgFiles }

SvgNames == { "soundcraft-mixer.svg", "soundcraft-utils.svg" }

\* ------------------------------------------------------------ destinations
service_dst(dd) == dd \o <<"dbus-1", "services", ServiceFileName>>

scalable_icondir(dd) == dd \o <<"icons", "hicolor", "scalable", "apps">>

\* shutil.copy(src, scalable_icondir): the file lands under its own name
copy_dst(dd, f) == scalable_icondir(dd) \o <<f>>

\* svg = scalable_icondir / f.name
svg_m(dd, f) == dd \o <<"icons", "hicolor", "apps", f>>
svg(dd, f) == scalable_icondir(dd) \o <<f>>

TrackedFiles ==
    { service_dst(dd) : dd \in RunDatadirs }
        \cup { copy_dst(dd, f) : dd \in RunDatadirs, f \in SvgNames }

\* the sizes of "for size in (16, 24, 32, 48, 256)"
sizes == <<16, 24, 32, 48, 256>>

\* ---------------------------------------------------------- the session bus
\* What StartServiceByName may answer: success, the GLib error of a service
\* the bus does not know (yet), the GLib error of another bus fault, and an
\* exception that is no GLibError.
BusAnswers == { "ok", "ServiceUnknown", "AccessDenied", "KeyboardInterrupt" }

\* except GLibError:
IsGLibError(a) == a \in { "ServiceUnknown", "AccessDenied" }

\* timeout = 5
timeout_init_m == 5 - 2
timeout_init == 5

\* if timeout == 0: raise
exhausted_m(t) == t = 1
exhausted(t) == t = 0

\* the other bus calls either succeed or raise
CallResults == { "ok", "GLibError" }

\* subprocess.run: the tool exits with 0, exits with a failure status, or is
\* not there to be run (FileNotFoundError)
ToolResults == { "exit0", "exit1", "FileNotFoundError" }

\* except FileNotFoundError: pass
swallowed_m(e) == FALSE
swallowed(e) == e = "FileNotFoundError"

\* path.unlink() under a filesystem fault ("none" or an OSError): the
\* exception raised ("none" when the file was removed) and the files left
unlink(files, path, fault) ==
    IF fault # "none" THEN [exc |-> fault, files |-> files]
    ELSE IF path \in files THEN [exc |-> "none", files |-> files \ {path}]
    ELSE [exc |-> "FileNotFoundError", files |-> files]

FsFaults == { "none", "PermissionError" }

\* ------------------------------------------------------------------- Init
NoRun ==
    /\ datadir = NoPath
    /\ timeout = 0
    /\ i = 1
    /\ size_i = 1
    /\ error = "none"
    /\ failedAt = "none"
    /\ starts = 0
    /\ sleeps = 0
    /\ answers = {}
    /\ log = << >>
    /\ toolFailed = FALSE
    /\ reported = FALSE

Init ==
    /\ home = UserHome
    /\ manifest \in Manifests
    /\ fs \in SUBSET TrackedFiles
    /\ prev = NoPath
    /\ mode = "idle"
    /\ argv0 = NoPath
    /\ pc = "idle"
    /\ NoRun

\* an exception e raised at position at reaches the top level
Raise(e, at) ==
    /\ pc' = "failed"
    /\ error' = e
    /\ failedAt' = at

NoRaise == UNCHANGED <<error, failedAt>>

\* ------------------------------------------------------------------- main
\* main(): parse the flags and dispatch; a run starts when none is under way.
main(flags, exe) ==
    /\ pc \in { "idle", "done", "failed" }
    /\ prev' = IF mode = "post_install" /\ pc = "done" THEN datadir ELSE NoPath
    /\ argv0' = exe
    /\ datadir' = NoPath
    /\ timeout' = 0
    /\ i' = 1
    /\ size_i' = 1
    /\ starts' = 0
    /\ sleeps' = 0
    /\ answers' = {}
    /\ log' = << >>
    /\ toolFailed' = FALSE
    /\ reported' = FALSE
    /\ IF flags = { "--post-install" }
       THEN mode' = "post_install" /\ pc' = "pi_find"
            /\ error' = "none" /\ failedAt' = "none"
       ELSE IF flags = { "--pre-uninstall" }
       THEN mode' = "pre_uninstall" /\ pc' = "ud_find"
            /\ error' = "none" /\ failedAt' = "none"
       ELSE mode' = "usage" /\ pc' = "failed"
            /\ error' = "SystemExit: usage" /\ failedAt' = "main"
    /\ UNCHANGED <<home, manifest, fs>>

\* the exit status of a run that is over
ExitStatus == IF pc = "done" THEN 0 ELSE IF error = "SystemExit: usage" THEN 2 ELSE 1

\* ------------------------------------------------------- post_install_dbus
\* datadir = find_datadir()
PostInstallDbusFind ==
    /\ pc = "pi_find"
    /\ LET r == find_datadir(argv0, home)
       IN  IF r.exc # "none"
           THEN Raise(r.exc, "pi_find") /\ UNCHANGED datadir
           ELSE datadir' = r.path /\ pc' = "pi_files" /\ NoRaise
    /\ i' = 1
    /\ UNCHANGED <<home, manifest, fs, prev, mode, argv0, timeout, size_i,
                   starts, sleeps, answers, log, toolFailed, reported>>

\* one turn of "for f in files": a .service file is rendered to service_dst.
\* The write succeeds, fails before service_dst is opened, or fails in
\* substitute() when service_dst has been opened for writing.
WriteResults == { "ok", "OSError", "KeyError" }

PostInstallDbusFile ==
    /\ pc = "pi_files"
    /\ i <= Len(manifest.dbus)
    /\ IF suffix(manifest.dbus[i]) = ".service"
       THEN \E w \in WriteResults :
              /\ fs' = IF w = "OSError" THEN fs
                       ELSE fs \cup { service_dst(datadir) }
              /\ log' = IF w = "OSError" THEN log
                        ELSE Append(log, "write service")
              /\ IF w = "ok"
                 THEN i' = i + 1 /\ UNCHANGED pc /\ NoRaise
                 ELSE Raise(w, "pi_files") /\ UNCHANGED i
       ELSE i' = i + 1 /\ UNCHANGED <<fs, log, pc>> /\ NoRaise
    /\ UNCHANGED <<home, manifest, prev, mode, argv0, datadir, timeout,
                   size_i, starts, sleeps, answers, toolFailed, reported>>

\* bus = pydbus.SessionBus(); dbus_service = bus.get(".DBus"); timeout = 5
PostInstallDbusConnect ==
    /\ pc = "pi_files"
    /\ i > Len(manifest.dbus)
    /\ \E c \in CallResults :
         /\ log' = Append(log, "SessionBus")
         /\ IF c = "ok"
            THEN pc' = "pi_probe" /\ timeout' = timeout_init /\ NoRaise
            ELSE Raise(c, "pi_connect") /\ UNCHANGED timeout
    /\ UNCHANGED <<home, manifest, fs, prev, mode, argv0, datadir, i, size_i,
                   starts, sleeps, answers, toolFailed, reported>>

\* one turn of the "while True" loop: the call, and the except clause
StartServiceByName ==
    /\ pc = "pi_probe"
    /\ \E a \in BusAnswers :
         /\ starts' = starts + 1
         /\ answers' = answers \cup { a }
         /\ IF a = "ok"
            THEN pc' = "pi_version" /\ NoRaise
                 /\ UNCHANGED <<timeout, sleeps>>
            ELSE IF IsGLibError(a)
            THEN IF exhausted(timeout)
                 THEN Raise(a, "pi_probe") /\ UNCHANGED <<timeout, sleeps>>
                 ELSE /\ timeout' = timeout - 1
                      /\ sleeps' = sleeps + 1
                      /\ UNCHANGED pc
                      /\ NoRaise
            ELSE Raise(a, "pi_probe") /\ UNCHANGED <<timeout, sleeps>>
    /\ UNCHANGED <<home, manifest, fs, prev, mode, argv0, datadir, i, size_i,
                   log, toolFailed, reported>>

\* our_service = bus.get(BUSNAME); service_version = our_service.version
PostInstallVersion ==
    /\ pc = "pi_version"
    /\ \E c \in CallResults :
         /\ log' = Append(log, "version")
         /\ IF c = "ok"
            THEN pc' = "pi_shutdown" /\ NoRaise
            ELSE Raise(c, "pi_version")
    /\ UNCHANGED <<home, manifest, fs, prev, mode, argv0, datadir, timeout, i,
                   size_i, starts, sleeps, answers, toolFailed, reported>>

\* (an error of Shutdown noted, and the run going on)
PostInstallShutdown_m ==
    /\ pc = "pi_shutdown"
    /\ \E c \in CallResults :
         /\ log' = Append(log, "Shutdown")
         /\ pc' = "px_find"
         /\ IF c = "ok" THEN NoRaise
            ELSE error' = c /\ failedAt' = "pi_shutdown"
    /\ UNCHANGED <<home, manifest, fs, prev, mode, argv0, datadir, timeout, i,
                   size_i, starts, sleeps, answers, toolFailed, reported>>

\* our_service.Shutdown(); post_install_dbus returns
PostInstallShutdown ==
    /\ pc = "pi_shutdown"
    /\ \E c \in CallResults :
         /\ log' = Append(log, "Shutdown")
         /\ IF c = "ok"
            THEN pc' = "px_find" /\ NoRaise
            ELSE Raise(c, "pi_shutdown")
    /\ UNCHANGED <<home, manifest, fs, prev, mode, argv0, datadir, timeout, i,
                   size_i, starts, sleeps, answers, toolFailed, reported>>

\* -------------------------------------------------------- post_install_xdg
\* post_install_xdg is entered (the locals of post_install_dbus are gone);
\* datadir = find_datadir(); sources = findDataFiles("xdg")
PostInstallXdgFind ==
    /\ pc = "px_find"
    /\ LET r == find_datadir(argv0, home)
       IN  IF r.exc # "none"
           THEN Raise(r.exc, "px_find") /\ UNCHANGED datadir
           ELSE datadir' = r.path /\ pc' = "px_files" /\ NoRaise
    /\ i' = 1
    /\ size_i' = 1
    /\ timeout' = 0
    /\ starts' = 0
    /\ sleeps' = 0
    /\ answers' = {}
    /\ UNCHANGED <<home, manifest, fs, prev, mode, argv0, log, toolFailed,
                   reported>>

\* subprocess.run([...]) of an xdg tool, logged as op: the exit status is
\* not looked at; only a tool that cannot be run raises.  Then the loop
\* goes on at file i2, size s2.
RunTool(at, op, i2, s2) ==
    \E r \in ToolResults :
      /\ log' = Append(log, op)
      /\ IF r = "FileNotFoundError"
         THEN Raise(r, at) /\ UNCHANGED <<i, size_i, toolFailed>>
         ELSE /\ toolFailed' = (toolFailed \/ r = "exit1")
              /\ i' = i2
              /\ size_i' = s2
              /\ UNCHANGED pc
              /\ NoRaise

\* .desktop: subprocess.run(["xdg-desktop-menu", "install", ...])
XdgDesktopMenuInstall ==
    /\ pc = "px_files"
    /\ i <= Len(manifest.xdg)
    /\ suffix(manifest.xdg[i]) = ".desktop"
    /\ RunTool("px_files", "xdg-desktop-menu install", i + 1, 1)
    /\ UNCHANGED <<home, manifest, fs, prev, mode, argv0, datadir, timeout,
                   starts, sleeps, answers, reported>>

\* .png: one subprocess.run(["xdg-icon-resource", "install", ...]) per size
XdgIconResourceInstall ==
    /\ pc = "px_files"
    /\ i <= Len(manifest.xdg)
    /\ suffix(manifest.xdg[i]) = ".png"
    /\ IF size_i < Len(sizes)
       THEN RunTool("px_files", "xdg-icon-resource install", i, size_i + 1)
       ELSE RunTool("px_files", "xdg-icon-resource install", i + 1, 1)
    /\ UNCHANGED <<home, manifest, fs, prev, mode, argv0, datadir, timeout,
                   starts, sleeps, answers, reported>>

\* .svg: scalable_icondir.mkdir(...); shutil.copy(src, scalable_icondir)
CopySvg ==
    /\ pc = "px_files"
    /\ i <= Len(manifest.xdg)
    /\ suffix(manifest.xdg[i]) = ".svg"
    /\ \E fault \in FsFaults :
         IF fault = "none"
         THEN /\ fs' = fs \cup { copy_dst(datadir, manifest.xdg[i]) }
              /\ log' = Append(log, "copy svg")
              /\ i' = i + 1
              /\ UNCHANGED pc
              /\ NoRaise
         ELSE Raise(fault, "px_files") /\ UNCHANGED <<fs, log, i>>
    /\ UNCHANGED <<home, manifest, prev, mode, argv0, datadir, timeout,
                   size_i, starts, sleeps, answers, toolFailed, reported>>

\* a file of any other suffix is passed over
PostInstallXdgSkip ==
    /\ pc = "px_files"
    /\ i <= Len(manifest.xdg)
    /\ suffix(manifest.xdg[i]) \notin { ".desktop", ".png", ".svg" }
    /\ i' = i + 1
    /\ UNCHANGED <<home, manifest, fs, prev, mode, argv0, pc, datadir,
                   timeout, size_i, error, failedAt, starts, sleeps, answers,
                   log, toolFailed, reported>>

\* print("Installed all XDG application launcher files"); main returns
PostInstallXdgReport ==
    /\ pc = "px_files"
    /\ i > Len(manifest.xdg)
    /\ reported' = TRUE
    /\ pc' = "done"
    /\ UNCHANGED <<home, manifest, fs, prev, mode, argv0, datadir, timeout,
                   i, size_i, error, failedAt, starts, sleeps, answers, log,
                   toolFailed>>

\* ------------------------------------------------------ pre_uninstall_dbus
\* datadir = find_datadir(); service_dst = ...
PreUninstallDbusFind ==
    /\ pc = "ud_find"
    /\ LET r == find_datadir(argv0, home)
       IN  IF r.exc # "none"
           THEN Raise(r.exc, "ud_find") /\ UNCHANGED datadir
           ELSE datadir' = r.path /\ pc' = "ud_owner" /\ NoRaise
    /\ UNCHANGED <<home, manifest, fs, prev, mode, argv0, timeout, i, size_i,
                   starts, sleeps, answers, log, toolFailed, reported>>

\* if not dbus_service.NameHasOwner(BUSNAME): ... else: ...
owner_branch_m(owned) == IF owned THEN "ud_version" ELSE "ux_find"
owner_branch(owned) == IF owned THEN "ud_version" ELSE "ud_unlink"

\* bus = pydbus.SessionBus(); dbus_service = bus.get(".DBus");
\* dbus_service.NameHasOwner(BUSNAME)
NameHasOwner ==
    /\ pc = "ud_owner"
    /\ \E c \in { "owned", "not owned", "GLibError" } :
         /\ log' = Append(log, "NameHasOwner")
         /\ IF c = "GLibError"
            THEN Raise(c, "ud_owner")
            ELSE pc' = owner_branch(c = "owned") /\ NoRaise
    /\ UNCHANGED <<home, manifest, fs, prev, mode, argv0, datadir, timeout, i,
                   size_i, starts, sleeps, answers, toolFailed, reported>>

\* service = bus.get(BUSNAME); service_version = service.version
PreUninstallVersion ==
    /\ pc = "ud_version"
    /\ \E c \in CallResults :
         /\ log' = Append(log, "version")
         /\ IF c = "ok"
            THEN pc' = "ud_shutdown" /\ NoRaise
            ELSE Raise(c, "ud_version")
    /\ UNCHANGED <<home, manifest, fs, prev, mode, argv0, datadir, timeout, i,
                   size_i, starts, sleeps, answers, toolFailed, reported>>

\* service.Shutdown()
PreUninstallShutdown ==
    /\ pc = "ud_shutdown"
    /\ \E c \in CallResults :
         /\ log' = Append(log, "Shutdown")
         /\ IF c = "ok"
            THEN pc' = "ud_unlink" /\ NoRaise
            ELSE Raise(c, "ud_shutdown")
    /\ UNCHANGED <<home, manifest, fs, prev, mode, argv0, datadir, timeout, i,
                   size_i, starts, sleeps, answers, toolFailed, reported>>

\* try: service_dst.unlink() except FileNotFoundError: pass;
\* pre_uninstall_dbus returns
UnlinkService ==
    /\ pc = "ud_unlink"
    /\ \E fault \in FsFaults :
         LET r == unlink(fs, service_dst(datadir), fault)
         IN  /\ fs' = r.files
             /\ log' = IF swallowed(r.exc)
                       THEN log \o <<"unlink service", "pass">>
                       ELSE Append(log, "unlink service")
             /\ IF r.exc = "none" \/ swallowed(r.exc)
                THEN pc' = "ux_find" /\ NoRaise
                ELSE Raise(r.exc, "ud_unlink")
    /\ UNCHANGED <<home, manifest, prev, mode, argv0, datadir, timeout, i,
                   size_i, starts, sleeps, answers, toolFailed, reported>>

\* ------------------------------------------------------- pre_uninstall_xdg
\* datadir = find_datadir(); sources = findDataFiles("xdg")
PreUninstallXdgFind ==
    /\ pc = "ux_find"
    /\ LET r == find_datadir(argv0, home)
       IN  IF r.exc # "none"
           THEN Raise(r.exc, "ux_find") /\ UNCHANGED datadir
           ELSE datadir' = r.path /\ pc' = "ux_files" /\ NoRaise
    /\ i' = 1
    /\ size_i' = 1
    /\ UNCHANGED <<home, manifest, fs, prev, mode, argv0, timeout, starts,
                   sleeps, answers, log, toolFailed, reported>>

\* .desktop: subprocess.run(["xdg-desktop-menu", "uninstall", ...])
XdgDesktopMenuUninstall ==
    /\ pc = "ux_files"
    /\ i <= Len(manifest.xdg)
    /\ suffix(manifest.xdg[i]) = ".desktop"
    /\ RunTool("ux_files", "xdg-desktop-menu uninstall", i + 1, 1)
    /\ UNCHANGED <<home, manifest, fs, prev, mode, argv0, datadir, timeout,
                   starts, sleeps, answers, reported>>

\* .png: one subprocess.run(["xdg-icon-resource", "uninstall", ...]) per size
XdgIconResourceUninstall ==
    /\ pc = "ux_files"
    /\ i <= Len(manifest.xdg)
    /\ suffix(manifest.xdg[i]) = ".png"
    /\ IF size_i < Len(sizes)
       THEN RunTool("ux_files", "xdg-icon-resource uninstall", i, size_i + 1)
       ELSE RunTool("ux_files", "xdg-icon-resource uninstall", i + 1, 1)
    /\ UNCHANGED <<home, manifest, fs, prev, mode, argv0, datadir, timeout,
                   starts, sleeps, answers, reported>>

\* .svg: try: svg.unlink() except FileNotFoundError: pass
UnlinkSvg ==
    /\ pc = "ux_files"
    /\ i <= Len(manifest.xdg)
    /\ suffix(manifest.xdg[i]) = ".svg"
    /\ \E fault \in FsFaults :
         LET r == unlink(fs, svg(datadir, manifest.xdg[i]), fault)
         IN  /\ fs' = r.files
             /\ log' = IF swallowed(r.exc)
                       THEN log \o <<"unlink svg", "pass">>
                       ELSE Append(log, "unlink svg")
             /\ IF r.exc = "none" \/ swallowed(r.exc)
                THEN i' = i + 1 /\ UNCHANGED pc /\ NoRaise
                ELSE Raise(r.exc, "ux_files") /\ UNCHANGED i
    /\ UNCHANGED <<home, manifest, prev, mode, argv0, datadir, timeout,
                   size_i, starts, sleeps, answers, toolFailed, reported>>

\* a file of any other suffix is passed over
PreUninstallXdgSkip ==
    /\ pc = "ux_files"
    /\ i <= Len(manifest.xdg)
    /\ suffix(manifest.xdg[i]) \notin { ".desktop", ".png", ".svg" }
    /\ i' = i + 1
    /\ UNCHANGED <<home, manifest, fs, prev, mode, argv0, pc, datadir,
                   timeout, size_i, error, failedAt, starts, sleeps, answers,
                   log, toolFailed, reported>>

\* print("Removed all XDG application launcher files"); main returns
PreUninstallXdgReport ==
    /\ pc = "ux_files"
    /\ i > Len(manifest.xdg)
    /\ reported' = TRUE
    /\ pc' = "done"
    /\ UNCHANGED <<home, manifest, fs, prev, mode, argv0, datadir, timeout,
                   i, size_i, error, failedAt, starts, sleeps, answers, log,
                   toolFailed>>

\* ---------------------------------------------------------- specification
Flags == SUBSET { "--post-install", "--pre-uninstall" }

Run == \E flags \in Flags, exe \in RunExePaths : main(flags, exe)

Next ==
    \/ Run
    \/ PostInstallDbusFind
    \/ PostInstallDbusFile
    \/ PostInstallDbusConnect
    \/ StartServiceByName
    \/ PostInstallVersion
    \/ PostInstallShutdown
    \/ PostInstallXdgFind
    \/ XdgDesktopMenuInstall
    \/ XdgIconResourceInstall
    \/ CopySvg
    \/ PostInstallXdgSkip
    \/ PostInstallXdgReport
    \/ PreUninstallDbusFind
    \/ NameHasOwner
    \/ PreUninstallVersion
    \/ PreUninstallShutdown
    \/ UnlinkService
    \/ PreUninstallXdgFind
    \/ XdgDesktopMenuUninstall
    \/ XdgIconResourceUninstall
    \/ UnlinkSvg
    \/ PreUninstallXdgSkip
    \/ PreUninstallXdgReport

Spec == Init /\ [][Next]_vars

\* find_datadir alone, for every home directory and executable path
InitDatadir ==
    /\ home \in Homes
    /\ argv0 \in ExePathsOf(home)
    /\ manifest = [dbus |-> << >>, xdg |-> << >>]
    /\ fs = {}
    /\ prev = NoPath
    /\ mode = "find_datadir"
    /\ pc = "fd_call"
    /\ NoRun

FindDatadir ==
    /\ pc = "fd_call"
    /\ LET r == find_datadir(argv0, home)
       IN  IF r.exc # "none"
           THEN Raise(r.exc, "fd_call") /\ UNCHANGED datadir
           ELSE datadir' = r.path /\ pc' = "fd_return" /\ NoRaise
    /\ UNCHANGED <<home, manifest, fs, prev, mode, argv0, timeout, i, size_i,
                   starts, sleeps, answers, log, toolFailed, reported>>

NextDatadir == FindDatadir

SpecDatadir == InitDatadir /\ [][NextDatadir]_vars

\* ================================================================ claims
Range(s) == { s[k] : k \in DOMAIN s }

\* the last operation logged in this run
LastOp == IF log = << >> THEN "none" ELSE log[Len(log)]

Positions(s, op) == { k \in DOMAIN s : s[k] = op }

XdgOps ==
    { "xdg-desktop-menu install", "xdg-icon-resource install", "copy svg",
      "xdg-desktop-menu uninstall", "xdg-icon-resource uninstall",
      "unlink svg" }

ProbeFailed == pc = "failed" /\ failedAt = "pi_probe"

\* C1 as stated: a bus that answers every StartServiceByName with "unknown
\* service" makes the probe fail after exactly 5 attempts.
C1_Stated ==
    (ProbeFailed /\ answers = { "ServiceUnknown" }) => starts = 5

\* C1, amended: while the bus answers every StartServiceByName with "unknown
\* service", the probe sleeps after each of the first 5 attempts and fails
\* at the 6th, re-raising that error, with no 7th attempt, no version read
\* and no Shutdown request.
C1_SixAttempts ==
    (mode = "post_install" /\ answers = { "ServiceUnknown" }) =>
        /\ pc \in { "pi_probe", "failed" }
        /\ starts <= 6
        /\ "version" \notin Range(log)
        /\ "Shutdown" \notin Range(log)
        /\ pc = "pi_probe" => (starts <= 5 /\ sleeps = starts)
        /\ pc = "failed" =>
             /\ failedAt = "pi_probe"
             /\ error = "ServiceUnknown"
             /\ starts = 6
             /\ sleeps = 5

C1_Witness ==
    /\ ProbeFailed
    /\ answers = { "ServiceUnknown" }
    /\ starts = 6
    /\ error = "ServiceUnknown"

\* C2: when the first N < 5 StartServiceByName requests are answered with
\* "unknown service" and the next one with success, the probe has not
\* failed before, succeeds at attempt N+1 after N sleeps, and goes on to the
\* version read and then the Shutdown request.
C2_SucceedsAfterN ==
    /\ (ProbeFailed /\ answers = { "ServiceUnknown" }) => starts > 5
    /\ (mode = "post_install" /\ "ok" \in answers
           /\ answers \subseteq { "ok", "ServiceUnknown" } /\ sleeps < 5) =>
        /\ starts = sleeps + 1
        /\ timeout = timeout_init - sleeps
        /\ pc \in { "pi_version", "pi_shutdown", "px_find", "failed" }
        /\ pc = "pi_version" => "version" \notin Range(log)
        /\ pc = "pi_shutdown" =>
             (LastOp = "version" /\ "Shutdown" \notin Range(log))
        /\ pc = "px_find" =>
             /\ Len(log) >= 2
             /\ log[Len(log) - 1] = "version"
             /\ log[Len(log)] = "Shutdown"
        /\ pc = "failed" => failedAt \in { "pi_version", "pi_shutdown" }

C2_Witness ==
    /\ pc = "px_find"
    /\ answers = { "ok", "ServiceUnknown" }
    /\ starts = 5
    /\ sleeps = 4
    /\ LastOp = "Shutdown"

\* the candidate prefixes of a home directory, in their priority order
Candidates(h) == << <<"usr", "local">>, <<"usr">>, h \o <<".local">> >>

Containing(exe, h) ==
    { p \in 1..3 : relative_to(exe, Candidates(h)[p]) }

FirstContaining(exe, h) ==
    Candidates(h)[CHOOSE p \in Containing(exe, h) :
                     \A q \in Containing(exe, h) : p <= q]

ExactMatch(exe, h) ==
    \E p \in 1..3, d \in { "bin", "sbin", "libexec" } :
        exe = Candidates(h)[p] \o <<d, BASE_EXE_INSTALLTOOL>>

\* C3: find_datadir returns <prefix>/share for the first of /usr/local,
\* /usr, ~/.local that contains the executable path, exact match or not,
\* and fails with the "not supported" ValueError, returning nothing, when
\* none contains it.
C3_FirstContainingWins ==
    (pc # "fd_call" /\ mode = "find_datadir" /\ exePath(argv0).exc = "none") =>
        IF Containing(argv0, home) # {}
        THEN /\ pc = "fd_return"
             /\ datadir = FirstContaining(argv0, home) \o <<"share">>
        ELSE /\ pc = "failed"
             /\ error = "ValueError: Exe path is not supported"
             /\ datadir = NoPath

C3_Witness ==
    /\ pc = "fd_return"
    /\ home = UserHome
    /\ argv0 = <<"usr", "local", "share", "virtualenvs", "venv", "bin",
                 BASE_EXE_INSTALLTOOL>>
    /\ ~ExactMatch(argv0, home)
    /\ datadir = <<"usr", "local", "share">>

\* C4: for each candidate prefix P and whatever the home directory, the
\* executable path P/bin/<installtool name> makes find_datadir return
\* P/share.
C4_BinResolvesToOwnShare ==
    (pc # "fd_call" /\ mode = "find_datadir") =>
        \A p \in 1..3 :
            argv0 = Candidates(home)[p] \o <<"bin", BASE_EXE_INSTALLTOOL>> =>
                /\ pc = "fd_return"
                /\ datadir = Candidates(home)[p] \o <<"share">>

IsSvg(f) == suffix(f) = ".svg"

ManifestSvgs == { f \in Range(manifest.xdg) : IsSvg(f) }

NoResidue(dd) ==
    /\ dd \o <<"dbus-1", "services", ServiceFileName>> \notin fs
    /\ \A f \in ManifestSvgs :
          dd \o <<"icons", "hicolor", "scalable", "apps", f>> \notin fs

\* C5: a completed post-install followed by a completed pre-uninstall that
\* resolves the same datadir leaves neither the service descriptor nor a
\* scalable icon of a manifest .svg file in that datadir.
C5_RoundTrip ==
    (mode = "pre_uninstall" /\ pc = "done" /\ prev # NoPath /\ prev = datadir)
        => NoResidue(datadir)

C5_Witness ==
    /\ mode = "pre_uninstall"
    /\ pc = "done"
    /\ prev = datadir
    /\ prev # NoPath
    /\ Cardinality(ManifestSvgs) = 2
    /\ Cardinality(Positions(log, "unlink svg")) = 2
    /\ "pass" \notin Range(log)

UninstallRunning ==
    /\ mode = "pre_uninstall"
    /\ pc \in { "ud_find", "ud_owner", "ud_version", "ud_shutdown",
                "ud_unlink", "ux_find", "ux_files" }

UninstallStep ==
    \/ PreUninstallDbusFind
    \/ NameHasOwner
    \/ PreUninstallVersion
    \/ PreUninstallShutdown
    \/ UnlinkService
    \/ PreUninstallXdgFind
    \/ XdgDesktopMenuUninstall
    \/ XdgIconResourceUninstall
    \/ UnlinkSvg
    \/ PreUninstallXdgSkip
    \/ PreUninstallXdgReport

\* C6: from any filesystem state, a pre-uninstall whose datadir resolves,
\* whose bus calls succeed, whose xdg tools can be run and that meets no
\* permission fault never stops, raises nothing for a missing file, and
\* ends with both steps done and no service descriptor or manifest icon
\* left.
C6_UninstallSafe ==
    /\ UninstallRunning => ENABLED UninstallStep
    /\ (mode = "pre_uninstall" /\ pc = "failed") =>
          /\ LastOp \notin { "unlink service", "unlink svg", "pass" }
               \/ error = "PermissionError"
          /\ \/ failedAt \in { "ud_find", "ud_owner", "ud_version",
                               "ud_shutdown", "ux_find" }
             \/ error = "PermissionError"
             \/ /\ error = "FileNotFoundError"
                /\ LastOp \in { "xdg-desktop-menu uninstall",
                                   "xdg-icon-resource uninstall" }
    /\ (mode = "pre_uninstall" /\ pc = "done") =>
          /\ reported
          /\ error = "none"
          /\ Cardinality(Positions(log, "unlink service")) = 1
          /\ NoResidue(datadir)

C6_Witness ==
    /\ mode = "pre_uninstall"
    /\ pc = "done"
    /\ Cardinality(ManifestSvgs) = 2
    /\ Cardinality(Positions(log, "pass")) = 3
    /\ NoResidue(datadir)

\* C7: an xdg-desktop-menu or xdg-icon-resource invocation that exits with
\* a failure status ends the run with an error and a non-zero exit status,
\* and the step does not report that all XDG files were installed/removed.
C7_ToolFailurePropagates ==
    toolFailed => (pc = "failed" /\ ExitStatus # 0 /\ ~reported)

\* C8: a StartServiceByName error other than "unknown service" propagates
\* at once: the run has failed with that error, with no further attempt.
C8_OnlyUnknownRetried ==
    \A a \in answers \ { "ok", "ServiceUnknown" } :
        /\ pc = "failed"
        /\ failedAt = "pi_probe"
        /\ error = a

UninstallDbusOver ==
    /\ mode = "pre_uninstall"
    /\ pc \in { "ux_find", "ux_files", "done", "failed" }
    /\ failedAt # "ud_find"

DbusSteps ==
    { "pi_find", "pi_files", "pi_connect", "pi_probe", "pi_version",
      "pi_shutdown" }

\* C10: in a post-install run where the D-Bus step fails (descriptor write,
\* probe, version read or Shutdown), the run is over, no xdg tool was
\* called and no .svg copied, and a descriptor written before the failure
\* is still on disk; XDG operations only ever follow the Shutdown request.
C10_XdgAfterDbus ==
    mode = "post_install" =>
        /\ failedAt \in DbusSteps =>
              /\ pc = "failed"
              /\ Range(log) \cap XdgOps = {}
              /\ ~reported
              /\ "write service" \in Range(log) =>
                    service_dst(datadir) \in fs
        /\ Range(log) \cap XdgOps # {} =>
              /\ "Shutdown" \in Range(log)
              /\ pc \in { "px_files", "done", "failed" }

C10_Witness ==
    /\ mode = "post_install"
    /\ pc = "failed"
    /\ failedAt = "pi_shutdown"
    /\ "write service" \in Range(log)
    /\ service_dst(datadir) \in fs
    /\ Range(log) \cap XdgOps = {}

====
